---- MODULE Spec2Model ----
(***************************************************************************)
(* Model of the storefront's product-catalog query layer                   *)
(* (lib/supabase/products.ts), of the HTTP route in front of it            *)
(* (app/api/products/route.ts), of the products page                       *)
(* (app/products/page.tsx) and of the "load more" client component         *)
(* (components/ProductListPagination.tsx).                                 *)
(*                                                                         *)
(* Strings that the code parses or formats (query parameters) are          *)
(* sequences of one-character strings; product names are sequences of      *)
(* character codes so that the store's ordering on them can be computed.   *)
(***************************************************************************)
EXTENDS Integers, Sequences, FiniteSets, TLC

VARIABLES
    catalog,    \* the rows of the products table, in the store's physical order
    session,    \* the caller's session token at the identity provider, or none
    res,        \* the last call of the query layer: operation, inputs, outcome
    page,       \* what ProductsPage last rendered, and the props it passed down
    mounted,    \* is a ProductListPagination instance mounted?
    products,   \* ProductListPagination: useState(initialProducts)
    limit,      \* ProductListPagination: useState(initialLimit)
    isPending,  \* ProductListPagination: useTransition's pending flag
    inflight,   \* the page requests sent and not yet settled, oldest first
    response,   \* how the last request of the mounted component settled
    alertOpen   \* is the (modal) alert of a failed load on screen?

qvars == <<catalog, res>>
cvars == <<page, mounted, products, limit, isPending, inflight, response, alertOpen>>
vars == <<catalog, session, res, page, mounted, products, limit, isPending, inflight,
          response, alertOpen>>

-----------------------------------------------------------------------------
(* Bounds of the model *)

\* the largest products table the query-layer specification draws
MaxRows == 2
\* the largest products table the listing specification draws
MaxListingRows == 30
\* the number of session tokens the identity provider issues
MaxTokens == 2

-----------------------------------------------------------------------------
(* The products table *)

\* SQL NULL (Product.category is string | null)
Null == "<null>"
\* the argument was not passed (TypeScript undefined)
Undefined == "<undefined>"

\* The sort columns of a row: price, created_at, name.  Every pair of
\* columns orders two of these rows in opposite ways and every column has
\* a tie, so that no two columns order the rows of a table the same way in
\* every table.
SortKeys ==
    { [price |-> 1, created_at |-> 1, name |-> <<2>>],
      [price |-> 1, created_at |-> 2, name |-> <<1, 2>>],
      [price |-> 2, created_at |-> 1, name |-> <<1, 2>>] }

\* What decides whether a query may see a row: is_active and category.
Visibility ==
    { [is_active |-> TRUE,  category |-> "shower"],
      [is_active |-> TRUE,  category |-> Null],
      [is_active |-> FALSE, category |-> "shower"] }

\* the primary key of the i-th row inserted
Id(i) == ToString(i)

\* A row of the table; id is the primary key (unique).
Row(i, k, v) ==
    [id |-> Id(i), name |-> k.name, price |-> k.price, category |-> v.category,
     is_active |-> v.is_active, created_at |-> k.created_at]

\* All tables of exactly n rows; row i has primary key i.
RECURSIVE TablesOfLen(_)
TablesOfLen(n) ==
    IF n = 0 THEN { <<>> }
    ELSE { Append(t, Row(n, k, v)) : t \in TablesOfLen(n - 1), k \in SortKeys, v \in Visibility }

SmallCatalogs == UNION { TablesOfLen(n) : n \in 0..MaxRows }

-----------------------------------------------------------------------------
(* The data store's query language, as the code uses it (PostgREST through *)
(* the supabase-js query builder): eq, order, range, limit, single, and    *)
(* the exact count of the filtered rows.                                   *)

Min(a, b) == IF a < b THEN a ELSE b
Max(a, b) == IF a > b THEN a ELSE b

\* .eq(column, value): SQL equality, which no NULL satisfies (category is
\* the one nullable column the code filters on)
Eq(rows, col, val) ==
    SelectSeq(rows, LAMBDA r :
        IF col = "category" THEN r.category # Null /\ r.category = val
        ELSE r[col] = val)

\* lexicographic order on names (sequences of character codes)
RECURSIVE LexLess(_, _)
LexLess(a, b) ==
    IF b = <<>> THEN FALSE
    ELSE IF a = <<>> THEN TRUE
    ELSE IF Head(a) # Head(b) THEN Head(a) < Head(b)
    ELSE LexLess(Tail(a), Tail(b))

\* the store's order on the values of a column
KeyLess(col, x, y) ==
    IF col = "name" THEN LexLess(x.name, y.name) ELSE x[col] < y[col]

\* does x come strictly before y in the requested direction?
Precedes(col, asc, x, y) ==
    IF asc THEN KeyLess(col, x, y) ELSE KeyLess(col, y, x)

\* two ordered runs merged; of rows with equal values, those of a come first
RECURSIVE MergeRuns(_, _, _, _)
MergeRuns(a, b, col, asc) ==
    IF a = <<>> THEN b
    ELSE IF b = <<>> THEN a
    ELSE IF Precedes(col, asc, Head(b), Head(a))
         THEN <<Head(b)>> \o MergeRuns(a, Tail(b), col, asc)
         ELSE <<Head(a)>> \o MergeRuns(Tail(a), b, col, asc)

\* .order(column, {ascending}): the rows by the value of the column; rows
\* with equal values keep the input (physical) order
RECURSIVE Order(_, _, _)
Order(rows, col, asc) ==
    LET n == Len(rows)
        h == n \div 2
    IN  IF n <= 1 THEN rows
        ELSE MergeRuns(Order(SubSeq(rows, 1, h), col, asc),
                       Order(SubSeq(rows, h + 1, n), col, asc), col, asc)

\* The order in which the plan of a query reads the table.  The store
\* returns rows of equal sort value in the order its plan produces them,
\* and two queries over the same table need not share a plan: the table is
\* read front to back or back to front.
Scans == { "forward", "backward" }

Reverse(rows) == [ i \in 1..Len(rows) |-> rows[Len(rows) + 1 - i] ]

Scan(table, scan) == IF scan = "forward" THEN table ELSE Reverse(table)

\* a range that stops before to
RangeEndExclusive(rows, from, to) == SubSeq(rows, from + 1, Min(to, Len(rows)))

\* .range(from, to): rows from..to of the result, zero-based and inclusive
Range(rows, from, to) == SubSeq(rows, from + 1, Min(to + 1, Len(rows)))

\* a limit that lets one row more through
LimitOneMore(rows, n) == SubSeq(rows, 1, Min(n + 1, Len(rows)))

\* .limit(n): the first n rows
Limit(rows, n) == SubSeq(rows, 1, Min(n, Len(rows)))


\* A nullable value: None (null) or Some(x)
None == <<>>
Some(x) == <<x>>

\* A JavaScript number in the places where the code can meet NaN: NaN, or
\* Num(n) for the integer n
NaN == <<>>
Num(n) == <<n>>

\* x + y, which is NaN as soon as one of them is
Plus(x, y) == IF x = NaN \/ y = NaN THEN NaN ELSE Num(x[1] + y[1])

\* How the store behaves during one call: it serves the query ("ok"), it
\* answers with an error of the given code (42P01: relation does not
\* exist), or the request raises an exception inside the client ("throw":
\* the session token cannot be obtained, the transport rejects).
StoreModes == { "ok", "42P01", "throw" }

\* A store that serves every query as "ok" does and, being of a version that
\* reads its limit and offset leniently, also a query whose range is none
AnyRange == "ok-any-range"

Serves(store) == store \in { "ok", AnyRange }

\* The store's answer {data, error, count} to a query whose rows are data
Respond(store, data, count) ==
    IF Serves(store) THEN [data |-> Some(data), error |-> None, count |-> count]
    ELSE [data |-> None, error |-> Some([code |-> store]), count |-> None]

\* .single(): exactly one row, or the no-row signal PGRST116
Single(store, rows) ==
    IF ~Serves(store) THEN Respond(store, rows, None)
    ELSE IF Len(rows) = 1 THEN [data |-> Some(rows[1]), error |-> None, count |-> None]
    ELSE [data |-> None, error |-> Some([code |-> "PGRST116"]), count |-> None]

\* the id column is a uuid: the store rejects any other text (22P02)
IsUuid(id) == id # "not-a-uuid"

-----------------------------------------------------------------------------
(* lib/supabase/server.ts and lib/supabase/products.ts *)

\* the outcome of a call: a returned value or a thrown Error
Return(v) == [kind |-> "return", value |-> v]
Throw(m) == [kind |-> "throw", message |-> m]

LoadErrorMessage == "load-error"
MissingEnvMessage == "missing-env"
ClientException == "client-exception"

\* process.env at the time of the call: is each variable set (non-empty)?
Envs == { [url |-> TRUE, key |-> TRUE], [url |-> FALSE, key |-> TRUE],
          [url |-> TRUE, key |-> FALSE] }

\* a createClient that does not check its configuration
createClientUnchecked(env) == Return("client")

createClient(env) ==
    IF ~env.url \/ ~env.key THEN Throw(MissingEnvMessage) ELSE Return("client")

\* `await query`: the store's answer, or the exception the request raises
Await(store, answer) ==
    IF store = "throw" THEN Throw(ClientException) ELSE Return(answer)

\* (data as Product[]) || []
OrEmpty(data) == IF data = None THEN <<>> ELSE data[1]

\* count || 0
OrZero(count) == IF count = None THEN 0 ELSE count[1]

\* a getProducts that answers a store error with the empty list
getProductsSwallowsError(env, store, table) ==
    LET supabase == createClient(env)
        q == Order(Eq(table, "is_active", TRUE), "created_at", FALSE)
        answered == Await(store, Respond(store, q, None))
    IN  IF supabase.kind = "throw" THEN supabase
        ELSE IF answered.kind = "throw" THEN answered
        ELSE Return(OrEmpty(answered.value.data))

getProducts(env, store, table) ==
    LET supabase == createClient(env)
        q == Order(Eq(table, "is_active", TRUE), "created_at", FALSE)
        answered == Await(store, Respond(store, q, None))
    IN  IF supabase.kind = "throw" THEN supabase
        ELSE IF answered.kind = "throw" THEN answered
        ELSE IF answered.value.error # None THEN Throw(LoadErrorMessage)
        ELSE Return(OrEmpty(answered.value.data))

\* a query by category that forgets the is_active filter
getProductsByCategoryAnyStatus(env, store, table, category) ==
    LET supabase == createClient(env)
        q == Order(Eq(table, "category", category), "created_at", FALSE)
        answered == Await(store, Respond(store, q, None))
    IN  IF supabase.kind = "throw" THEN supabase
        ELSE IF answered.kind = "throw" THEN answered
        ELSE IF answered.value.error # None THEN Throw(LoadErrorMessage)
        ELSE Return(OrEmpty(answered.value.data))

getProductsByCategory(env, store, table, category) ==
    LET supabase == createClient(env)
        q == Order(Eq(Eq(table, "is_active", TRUE), "category", category),
                   "created_at", FALSE)
        answered == Await(store, Respond(store, q, None))
    IN  IF supabase.kind = "throw" THEN supabase
        ELSE IF answered.kind = "throw" THEN answered
        ELSE IF answered.value.error # None THEN Throw(LoadErrorMessage)
        ELSE Return(OrEmpty(answered.value.data))

\* limit: number = 6
DefaultFeaturedLimit == 6

\* the limit of a call of getFeaturedProducts whose argument is None (not
\* passed) or Some(n)
FeaturedLimit(arg) == IF arg = None THEN DefaultFeaturedLimit ELSE arg[1]

\* the body of getFeaturedProducts' try block
FeaturedTry(env, store, table, lim) ==
    LET supabase == createClient(env)
        q == Limit(Order(Eq(table, "is_active", TRUE), "created_at", FALSE), lim)
        answered == Await(store, Respond(store, q, None))
    IN  IF ~env.url \/ ~env.key THEN Return(<<>>)
        ELSE IF supabase.kind = "throw" THEN supabase
        ELSE IF answered.kind = "throw" THEN answered
        ELSE IF answered.value.error # None THEN Return(<<>>)
        ELSE Return(OrEmpty(answered.value.data))

\* the function without its catch block
getFeaturedProductsNoCatch(env, store, table, lim) == FeaturedTry(env, store, table, lim)

\* try { ... } catch (err) { return [] }
getFeaturedProducts(env, store, table, lim) ==
    LET t == FeaturedTry(env, store, table, lim)
    IN  IF t.kind = "throw" THEN Return(<<>>) ELSE t

\* a switch whose price_desc arm was copied from price_asc unchanged
SortOrderCopiedArm(sortBy) ==
    CASE sortBy \in { "price_asc", "price_desc" }
                               -> [column |-> "price", ascending |-> TRUE]
      [] sortBy = "newest"     -> [column |-> "created_at", ascending |-> FALSE]
      [] sortBy = "oldest"     -> [column |-> "created_at", ascending |-> TRUE]
      [] sortBy = "name_asc"   -> [column |-> "name", ascending |-> TRUE]
      [] OTHER                 -> [column |-> "created_at", ascending |-> FALSE]

\* a switch whose default arm sorts oldest first
SortOrderDefaultOldest(sortBy) ==
    CASE sortBy = "price_asc"  -> [column |-> "price", ascending |-> TRUE]
      [] sortBy = "price_desc" -> [column |-> "price", ascending |-> FALSE]
      [] sortBy = "newest"     -> [column |-> "created_at", ascending |-> FALSE]
      [] sortBy = "oldest"     -> [column |-> "created_at", ascending |-> TRUE]
      [] sortBy = "name_asc"   -> [column |-> "name", ascending |-> TRUE]
      [] OTHER                 -> [column |-> "created_at", ascending |-> TRUE]

\* the sort switch: the column and direction of each option
SortOrder(sortBy) ==
    CASE sortBy = "price_asc"  -> [column |-> "price", ascending |-> TRUE]
      [] sortBy = "price_desc" -> [column |-> "price", ascending |-> FALSE]
      [] sortBy = "newest"     -> [column |-> "created_at", ascending |-> FALSE]
      [] sortBy = "oldest"     -> [column |-> "created_at", ascending |-> TRUE]
      [] sortBy = "name_asc"   -> [column |-> "name", ascending |-> TRUE]
      [] OTHER                 -> [column |-> "created_at", ascending |-> FALSE]

\* a test that takes every string, the empty one too, for a category
TruthyIfPassed(s) == s # Undefined

\* if (category): the argument was passed and is not the empty string
Truthy(s) == s # Undefined /\ s # ""

\* a filter that forgets the category
PageFilterActiveOnly(table, category) == Eq(table, "is_active", TRUE)

\* the rows the paginated query filters: active, and of the category if one
\* is given
PageFilter(table, category) ==
    LET active == Eq(table, "is_active", TRUE)
    IN  IF Truthy(category) THEN Eq(active, "category", category) ELSE active

\* a count taken after the range instead of before it
ExactCountOfPage(filtered, ranged) == Len(ranged)

\* select("*", { count: "exact" }): the number of rows the filter keeps,
\* whatever the range returns
ExactCount(filtered, ranged) == Len(filtered)

\* is from..to a range of rows: two numbers, from not negative, to not
\* before from
IsRange(from, to) ==
    IF from = NaN \/ to = NaN THEN FALSE ELSE from[1] >= 0 /\ to[1] >= from[1]

\* .range(from, to) on the filtered and sorted rows, with the exact count.
\* The query builder sends offset = from and limit = to - from + 1 as text.
\* What the store makes of text that is no range depends on its version:
\* it answers with the error PGRST103 or, reading leniently (AnyRange),
\* it serves all rows for NaN and no row for a limit of 0.  A negative
\* offset or limit is an error for every version.
RangeAnswer(store, filtered, sorted, from, to) ==
    LET nan == from = NaN \/ to = NaN
        ranged == IF IsRange(from, to) THEN Range(sorted, from[1], to[1])
                  ELSE IF nan THEN sorted
                  ELSE <<>>
        lenient == IF nan THEN TRUE ELSE from[1] >= 0 /\ to[1] = from[1] - 1
    IN  IF IsRange(from, to) \/ (store = AnyRange /\ lenient)
        THEN Respond(store, ranged, Some(ExactCount(filtered, ranged)))
        ELSE Respond(IF Serves(store) THEN "PGRST103" ELSE store, <<>>, None)

\* lim and offset are JavaScript numbers (NaN or Num(n))
getProductsWithPagination(env, store, table, category, sortByArg, lim, offset) ==
    LET supabase == createClient(env)
        sortBy == IF sortByArg = Undefined THEN "newest" ELSE sortByArg
        filtered == PageFilter(table, category)
        o == SortOrder(sortBy)
        sorted == Order(filtered, o.column, o.ascending)
        answered == Await(store, RangeAnswer(store, filtered, sorted, offset,
                                             Plus(Plus(offset, lim), Num(-1))))
    IN  IF supabase.kind = "throw" THEN supabase
        ELSE IF answered.kind = "throw" THEN answered
        ELSE IF answered.value.error # None THEN Throw(LoadErrorMessage)
        ELSE Return([products |-> OrEmpty(answered.value.data),
                     total |-> OrZero(answered.value.count)])

\* a lookup that takes every store error for "not found"
getProductByIdAnyErrorIsNull(env, store, table, id) ==
    LET supabase == createClient(env)
        q == IF IsUuid(id) THEN Single(store, Eq(Eq(table, "id", id), "is_active", TRUE))
             ELSE Respond(IF Serves(store) THEN "22P02" ELSE store, <<>>, None)
        answered == Await(store, q)
    IN  IF supabase.kind = "throw" THEN supabase
        ELSE IF answered.kind = "throw" THEN answered
        ELSE IF answered.value.error # None THEN Return(None)
        ELSE Return(answered.value.data)

getProductById(env, store, table, id) ==
    LET supabase == createClient(env)
        q == IF IsUuid(id) THEN Single(store, Eq(Eq(table, "id", id), "is_active", TRUE))
             ELSE Respond(IF Serves(store) THEN "22P02" ELSE store, <<>>, None)
        answered == Await(store, q)
    IN  IF supabase.kind = "throw" THEN supabase
        ELSE IF answered.kind = "throw" THEN answered
        ELSE IF answered.value.error # None
             THEN IF answered.value.error[1].code = "PGRST116" THEN Return(None)
                  ELSE Throw(LoadErrorMessage)
        ELSE Return(answered.value.data)

-----------------------------------------------------------------------------
(* lib/constants/categories.ts *)

\* a list in which the path and the stored value of one category differ
CATEGORIESWithOtherDbValue ==
    << [path |-> "shower", dbValue |-> "shower", label |-> "shower supplies"],
       [path |-> "bath", dbValue |-> "bath", label |-> "bath supplies"],
       [path |-> "sink", dbValue |-> "washbasin", label |-> "washbasin"],
       [path |-> "accessories", dbValue |-> "accessories", label |-> "accessories"] >>

\* the category list (the labels, Korean in the source, are given in English)
CATEGORIES ==
    << [path |-> "shower", dbValue |-> "shower", label |-> "shower supplies"],
       [path |-> "bath", dbValue |-> "bath", label |-> "bath supplies"],
       [path |-> "sink", dbValue |-> "sink", label |-> "washbasin"],
       [path |-> "accessories", dbValue |-> "accessories", label |-> "accessories"] >>

\* Array.prototype.find on the list: the first entry whose field has the
\* value, or None (undefined)
FindCategory(field, value) ==
    LET hits == { i \in DOMAIN CATEGORIES : CATEGORIES[i][field] = value }
    IN  IF hits = {} THEN None
        ELSE Some(CATEGORIES[CHOOSE i \in hits : \A j \in hits : i <= j])

getCategoryByPath(path) == FindCategory("path", path)

getCategoryByDbValue(dbValue) == FindCategory("dbValue", dbValue)

-----------------------------------------------------------------------------
(* app/products/[id]/page.tsx *)

\* what the detail page shows for an id
ProductDetailPage(env, store, table, id) ==
    LET product == getProductById(env, store, table, id)
    IN  IF product.kind = "throw" THEN [view |-> "error", message |-> product.message]
        ELSE IF product.value = None THEN [view |-> "not-found"]
        ELSE [view |-> "detail", product |-> product.value[1]]

-----------------------------------------------------------------------------
(* Query-string values.  A number travels from the component to the route  *)
(* as text: String(n) on the way out, parseInt(text, 10) on the way in.    *)

Digits == <<"0", "1", "2", "3", "4", "5", "6", "7", "8", "9">>

\* the value of a digit character, or -1 for any other character
DigitValue(c) ==
    IF \E d \in 1..10 : Digits[d] = c
    THEN (CHOOSE d \in 1..10 : Digits[d] = c) - 1
    ELSE -1

\* String(n) for an integer n: its decimal digits, "-" first if negative
RECURSIVE NatToString(_)
NatToString(n) ==
    IF n < 10 THEN <<Digits[n + 1]>>
    ELSE Append(NatToString(n \div 10), Digits[(n % 10) + 1])

String(n) == IF n < 0 THEN <<"-">> \o NatToString(0 - n) ELSE NatToString(n)

\* the value of the longest prefix of digits of s, starting from acc
RECURSIVE DigitsPrefix(_, _)
DigitsPrefix(s, acc) ==
    IF s = <<>> \/ DigitValue(Head(s)) < 0 THEN acc
    ELSE DigitsPrefix(Tail(s), acc * 10 + DigitValue(Head(s)))

RECURSIVE SkipSpaces(_)
SkipSpaces(s) == IF s # <<>> /\ Head(s) = " " THEN SkipSpaces(Tail(s)) ELSE s

\* parseInt(s, 10): leading blanks, an optional sign, then digits up to the
\* first other character; NaN when no digit is found there
parseInt(s) ==
    LET t == SkipSpaces(s)
        negative == t # <<>> /\ Head(t) = "-"
        u == IF t # <<>> /\ Head(t) \in { "-", "+" } THEN Tail(t) ELSE t
    IN  IF u = <<>> \/ DigitValue(Head(u)) < 0 THEN NaN
        ELSE IF negative THEN Num(0 - DigitsPrefix(u, 0)) ELSE Num(DigitsPrefix(u, 0))

-----------------------------------------------------------------------------
(* app/api/products/route.ts *)

\* the page size of the route when the limit parameter is missing
DefaultLimit == 12

\* searchParams.get(name) || fallback, for a parameter that is None
\* (absent) or Some(value)
GetOr(param, fallback) ==
    IF param = None \/ param[1] = "" THEN fallback ELSE param[1]

\* the same for a parameter whose text is parsed (a sequence of characters)
GetTextOr(param, fallback) ==
    IF param = None \/ param[1] = <<>> THEN fallback ELSE param[1]

\* the message of every 500 answer
RouteErrorMessage == "route-error"

\* the arguments the route reads from the query parameters
RouteArgs(params) ==
    [category |-> GetOr(params.category, Undefined),
     sortBy |-> GetOr(params.sort, "newest"),
     limit |-> parseInt(GetTextOr(params.limit, String(DefaultLimit))),
     offset |-> parseInt(GetTextOr(params.offset, String(0)))]

\* a catch block that hands the caught error's message to the client
GETLeaksMessage(env, store, table, params) ==
    LET a == RouteArgs(params)
        r == getProductsWithPagination(env, store, table, a.category, a.sortBy,
                                       a.limit, a.offset)
    IN  IF r.kind = "throw"
        THEN [status |-> 500, body |-> [error |-> r.message]]
        ELSE [status |-> 200, body |-> r.value]

\* GET /api/products with the given query parameters
GET(env, store, table, params) ==
    LET a == RouteArgs(params)
        r == getProductsWithPagination(env, store, table, a.category, a.sortBy,
                                       a.limit, a.offset)
    IN  IF r.kind = "throw"
        THEN [status |-> 500, body |-> [error |-> RouteErrorMessage]]
        ELSE [status |-> 200, body |-> r.value]

-----------------------------------------------------------------------------
(* app/products/page.tsx *)

\* the size of the first page, and the initialLimit prop
FirstPageLimit == 12
InitialLimit == 12

\* ProductsPage for /products?category=..&sort=..: the server render
ProductsPage(env, store, table, categoryParam, sortParam) ==
    LET selectedCategory == IF categoryParam = None THEN Undefined ELSE categoryParam[1]
        sortBy == GetOr(sortParam, "newest")
        r == getProductsWithPagination(env, store, table, selectedCategory, sortBy,
                                       Num(FirstPageLimit), Num(0))
    IN  IF r.kind = "throw" THEN [view |-> "error"]
        ELSE IF Len(r.value.products) > 0
        THEN [view |-> "list", initialProducts |-> r.value.products,
              total |-> r.value.total, category |-> selectedCategory,
              sortBy |-> sortBy, initialLimit |-> InitialLimit]
        ELSE [view |-> "empty"]

-----------------------------------------------------------------------------
(* components/ProductListPagination.tsx *)

\* what each "load more" adds to the limit
Increment == 12

\* const hasMore = products.length < total
hasMore == mounted /\ Len(products) < page.total

\* a button that is never disabled
ButtonEnabledNeverDisabled == hasMore

\* a button that is rendered whether or not there is more to load
ButtonAlwaysRendered == mounted /\ ~isPending

\* the button is rendered only if hasMore, and is disabled while isPending
ButtonEnabled == hasMore /\ ~isPending

\* a query string whose offset is one past the products on screen
RequestParamsSkipsOne ==
    [category |-> IF Truthy(page.category) THEN Some(page.category) ELSE None,
     sort |-> Some(page.sortBy),
     limit |-> Some(String(limit + Increment)),
     offset |-> Some(String(Len(products) + 1))]

\* the query string loadMore builds from the values of the current render
RequestParams ==
    [category |-> IF Truthy(page.category) THEN Some(page.category) ELSE None,
     sort |-> Some(page.sortBy),
     limit |-> Some(String(limit + Increment)),
     offset |-> Some(String(Len(products)))]

\* a request on its way, with the products and limit its closure captured
Request ==
    [params |-> RequestParams, products |-> products, limit |-> limit, live |-> TRUE]

\* a request whose component has been unmounted: its answer can set no
\* state any more, so only its existence is kept
Stale == [live |-> FALSE]

\* the positions of the requests of the mounted component
LiveRequests(rs) == { i \in DOMAIN rs : rs[i].live }

\* the sequence without its i-th element
Remove(rs, i) == SubSeq(rs, 1, i - 1) \o SubSeq(rs, i + 1, Len(rs))

-----------------------------------------------------------------------------
(* The query layer called once on a small table: the inputs of the call    *)
(* are drawn here, the outcome is kept in res.  The three list queries     *)
(* are called under either scan of the table; the paginated query and the  *)
(* lookup by id, whose results are compared with no other query's unless   *)
(* the order is total, under the forward scan.                             *)

\* the environment and the store during one call; the store is not reached
\* when the configuration is missing
Worlds ==
    { w \in [env : Envs, store : StoreModes] :
        (w.env.url /\ w.env.key) \/ w.store = "ok" }

Healthy(w) == w.env.url /\ w.env.key /\ w.store = "ok"

Configured(w) == w.env.url /\ w.env.key

SortOptions == { "price_asc", "price_desc", "newest", "oldest", "name_asc" }

\* the category argument: not passed, empty, a category with rows, one without
CategoryArgs == { Undefined, "", "shower", "sink" }
\* the sortBy argument: not passed, the five options, and two unknown values
SortArgs == SortOptions \cup { Undefined, "", "popular" }
LimitArgs == 1..MaxRows
OffsetArgs == 0..(MaxRows - 1)
\* ids: of every row a table can have, of no row, and text that is no uuid
IdArgs == { Id(i) : i \in 1..(MaxRows + 1) } \cup { "not-a-uuid" }

NoCall == [op |-> "none"]
NoPage == [view |-> "none"]

Idle == res = NoCall

ControllerInit ==
    /\ page = NoPage
    /\ mounted = FALSE
    /\ products = <<>>
    /\ limit = 0
    /\ isPending = FALSE
    /\ inflight = <<>>
    /\ response = "none"
    /\ alertOpen = FALSE

QueryInit ==
    /\ catalog \in SmallCatalogs
    /\ session = None
    /\ res = NoCall
    /\ ControllerInit

CallGetProducts ==
    /\ Idle
    /\ \E w \in Worlds, scan \in Scans :
        res' = [op |-> "getProducts", world |-> w, scan |-> scan,
                out |-> getProducts(w.env, w.store, Scan(catalog, scan))]
    /\ UNCHANGED <<catalog, session, cvars>>

CallGetProductsByCategory ==
    /\ Idle
    /\ \E w \in Worlds, scan \in Scans, category \in CategoryArgs \ { Undefined } :
        res' = [op |-> "getProductsByCategory", world |-> w, scan |-> scan,
                category |-> category,
                out |-> getProductsByCategory(w.env, w.store, Scan(catalog, scan),
                                              category)]
    /\ UNCHANGED <<catalog, session, cvars>>

CallGetFeaturedProducts ==
    /\ Idle
    /\ \E w \in Worlds, scan \in Scans, arg \in { None } \cup { Some(n) : n \in LimitArgs } :
        res' = [op |-> "getFeaturedProducts", world |-> w, scan |-> scan,
                arg |-> arg, limit |-> FeaturedLimit(arg),
                out |-> getFeaturedProducts(w.env, w.store, Scan(catalog, scan),
                                            FeaturedLimit(arg))]
    /\ UNCHANGED <<catalog, session, cvars>>

CallGetProductsWithPagination ==
    /\ Idle
    /\ \E w \in Worlds, category \in CategoryArgs, sortBy \in SortArgs,
          n \in LimitArgs, offset \in OffsetArgs :
        res' = [op |-> "getProductsWithPagination", world |-> w,
                category |-> category, sortBy |-> sortBy, limit |-> n,
                offset |-> offset,
                out |-> getProductsWithPagination(w.env, w.store, catalog,
                                                  category, sortBy, Num(n), Num(offset))]
    /\ UNCHANGED <<catalog, session, cvars>>

CallGetProductById ==
    /\ Idle
    /\ \E w \in Worlds, id \in IdArgs :
        res' = [op |-> "getProductById", world |-> w, id |-> id,
                out |-> getProductById(w.env, w.store, catalog, id)]
    /\ UNCHANGED <<catalog, session, cvars>>

VisitProductDetailPage ==
    /\ Idle
    /\ \E w \in Worlds, id \in IdArgs :
        res' = [op |-> "ProductDetailPage", world |-> w, id |-> id,
                out |-> ProductDetailPage(w.env, w.store, catalog, id)]
    /\ UNCHANGED <<catalog, session, cvars>>

\* the server during one request of the route: as for the other calls, and
\* a store of the lenient kind
RouteWorlds ==
    Worlds \cup { [env |-> [url |-> TRUE, key |-> TRUE], store |-> AnyRange] }

\* the query parameters of a request to the route: absent, empty, a number,
\* a number followed by other text, text that is no number, zero, negative
RouteCategoryParams == { None, Some(""), Some("shower") }
RouteSortParams == { None, Some("oldest") }
RouteLimitParams == { None, Some(<<"2", "x">>), Some(<<"a">>), Some(<<"0">>) }
RouteOffsetParams == { None, Some(<<>>), Some(<<"1">>), Some(<<"-", "1">>) }

RequestGET ==
    /\ Idle
    /\ \E w \in RouteWorlds,
          params \in [category : RouteCategoryParams, sort : RouteSortParams,
                      limit : RouteLimitParams, offset : RouteOffsetParams] :
        res' = [op |-> "GET", world |-> w, params |-> params,
                args |-> RouteArgs(params),
                out |-> GET(w.env, w.store, catalog, params)]
    /\ UNCHANGED <<catalog, session, cvars>>

\* strings to look a category up by: the four listed ones, the empty
\* string, a listed one in another case or with a blank, an unlisted one
CategoryStrings ==
    { "shower", "bath", "sink", "accessories", "", "Shower", "sink ", "washbasin" }

CallGetCategoryByPath ==
    /\ Idle
    /\ \E str \in CategoryStrings :
        res' = [op |-> "getCategoryByPath", arg |-> str, out |-> getCategoryByPath(str)]
    /\ UNCHANGED <<catalog, session, cvars>>

CallGetCategoryByDbValue ==
    /\ Idle
    /\ \E str \in CategoryStrings :
        res' = [op |-> "getCategoryByDbValue", arg |-> str,
                out |-> getCategoryByDbValue(str)]
    /\ UNCHANGED <<catalog, session, cvars>>

QueryNext ==
    \/ CallGetCategoryByPath
    \/ CallGetCategoryByDbValue
    \/ RequestGET
    \/ CallGetProducts
    \/ CallGetProductsByCategory
    \/ CallGetFeaturedProducts
    \/ CallGetProductsWithPagination
    \/ CallGetProductById
    \/ VisitProductDetailPage

QuerySpec == QueryInit /\ [][QueryNext]_vars

-----------------------------------------------------------------------------
(* The query layer called again and again by a caller whose session        *)
(* changes between the calls: which token travels with each request.       *)

\* anonymous, or signed in with one of the provider's tokens
Sessions == { None } \cup { Some(t) : t \in 1..MaxTokens }

\* accessToken(): (await auth()).getToken() ?? null, asked when the request
\* is sent
accessToken == session

QueryOps == { "getProducts", "getProductsByCategory", "getFeaturedProducts",
              "getProductsWithPagination", "getProductById" }

\* the operation called with arguments of a first visit
Perform(op, w) ==
    CASE op = "getProducts" -> getProducts(w.env, w.store, catalog)
      [] op = "getProductsByCategory" -> getProductsByCategory(w.env, w.store, catalog, "shower")
      [] op = "getFeaturedProducts" ->
            getFeaturedProducts(w.env, w.store, catalog, DefaultFeaturedLimit)
      [] op = "getProductsWithPagination" ->
            getProductsWithPagination(w.env, w.store, catalog, Undefined, Undefined,
                                      Num(FirstPageLimit), Num(0))
      [] op = "getProductById" -> getProductById(w.env, w.store, catalog, Id(1))

\* the token of the call before this one, if there was one that sent a
\* request
PreviousToken == IF res # NoCall /\ res.sent THEN Some(res.token) ELSE None

\* a module that keeps the first token it obtained for the calls after it
QueryWithCachedToken(op, w) ==
    /\ res' = [op |-> op, world |-> w, out |-> Perform(op, w),
               sent |-> Configured(w),
               token |-> IF PreviousToken # None THEN PreviousToken[1] ELSE accessToken,
               previous |-> PreviousToken]
    /\ UNCHANGED <<catalog, session, cvars>>

\* One call of an operation: createClient() builds a new client, and when
\* the configuration is there the client sends the query with the token
\* its accessToken callback returns at that moment.
QueryWithToken(op, w) ==
    /\ res' = [op |-> op, world |-> w, out |-> Perform(op, w),
               sent |-> Configured(w),
               token |-> accessToken,
               previous |-> PreviousToken]
    /\ UNCHANGED <<catalog, session, cvars>>

\* the caller signs in or out, or the provider replaces the token
SessionChanges ==
    /\ \E t \in Sessions \ { session } : session' = t
    /\ UNCHANGED <<catalog, res, cvars>>

TokenInit ==
    /\ catalog \in { <<>> } \cup TablesOfLen(1)
    /\ session \in Sessions
    /\ res = NoCall
    /\ ControllerInit

TokenNext ==
    \/ SessionChanges
    \/ \E op \in QueryOps, w \in Worlds : QueryWithToken(op, w)

TokenSpec == TokenInit /\ [][TokenNext]_vars

-----------------------------------------------------------------------------
(* The listing: the products page, the component it mounts, the route the  *)
(* component calls, over one unchanged products table.                     *)

\* row i of a generated table: distinct creation times, prices with ties;
\* in a "mixed" table every fourth row is inactive and the categories
\* alternate between none, shower and bath
GenRow(i, pattern) ==
    [id |-> Id(i), name |-> <<(i * 3) % 7, i>>, price |-> (i * 5) % 6,
     category |-> IF pattern = "uniform" \/ i % 3 = 1 THEN "shower"
                  ELSE IF i % 3 = 2 THEN "bath" ELSE Null,
     is_active |-> (pattern = "uniform" \/ i % 4 # 0),
     created_at |-> i]

GenTable(n, pattern) == [ i \in 1..n |-> GenRow(i, pattern) ]

ListingSizes == { 1, Increment + 1, MaxListingRows }

ListingCatalogs ==
    { GenTable(n, pattern) : n \in ListingSizes, pattern \in { "uniform", "mixed" } }

\* the query parameters of /products a visitor may arrive with
CategoryParams == { None, Some(""), Some("shower"), Some("sink") }
SortParams == { None, Some("price_asc"), Some("popular") }

\* the server during one request of the listing: healthy, or the store fails
ListingWorlds ==
    { w \in Worlds : w.env.url /\ w.env.key /\ w.store \in { "ok", "42P01" } }

Init ==
    /\ catalog \in ListingCatalogs
    /\ session = None
    /\ res = NoCall
    /\ ControllerInit

\* The visitor opens /products with the given parameters.  A component
\* already mounted at the same place keeps its state (useState ignores its
\* argument after the first render); it is unmounted when the page shows
\* the empty state or fails.
Navigate(categoryParam, sortParam, w) ==
    LET rendered == ProductsPage(w.env, w.store, catalog, categoryParam, sortParam)
    IN  /\ ~alertOpen
        /\ page' = rendered
        /\ IF rendered.view = "list"
           THEN /\ mounted' = TRUE
                /\ products' = IF mounted THEN products ELSE rendered.initialProducts
                /\ limit' = IF mounted THEN limit ELSE rendered.initialLimit
                /\ isPending' = IF mounted THEN isPending ELSE FALSE
                /\ response' = IF mounted THEN response ELSE "none"
                /\ inflight' = inflight
           ELSE /\ mounted' = FALSE
                /\ products' = <<>>
                /\ limit' = 0
                /\ isPending' = FALSE
                /\ response' = "none"
                /\ inflight' = IF inflight = <<>> THEN <<>> ELSE <<Stale>>
        /\ UNCHANGED <<catalog, session, res, alertOpen>>

\* onClick={loadMore}: startTransition raises isPending and the request of
\* the current render leaves
LoadMore ==
    /\ ~alertOpen
    /\ ButtonEnabled
    /\ isPending' = TRUE
    /\ inflight' = Append(inflight, Request)
    /\ UNCHANGED <<catalog, session, res, page, mounted, products, limit, response, alertOpen>>

\* a catch block reached after setLimit has already run
FailedAfterSetLimit(i, outcome) ==
    /\ alertOpen' = TRUE
    /\ response' = outcome
    /\ inflight' = Remove(inflight, i)
    /\ limit' = limit + Increment
    /\ UNCHANGED <<catalog, session, res, page, mounted, products, isPending>>

\* the i-th request failed with the given outcome: the catch block alerts
Failed(i, outcome) ==
    /\ alertOpen' = TRUE
    /\ response' = outcome
    /\ inflight' = Remove(inflight, i)
    /\ UNCHANGED <<catalog, session, res, page, mounted, products, limit, isPending>>

\* a success handler that shows the page it received in place of the list
SucceededReplaces(i, body) ==
    /\ products' = body.products
    /\ limit' = inflight[i].limit + Increment
    /\ response' = "ok"
    /\ inflight' = Remove(inflight, i)
    /\ isPending' = (LiveRequests(Remove(inflight, i)) # {})
    /\ UNCHANGED <<catalog, session, res, page, mounted, alertOpen>>

\* a success handler without setLimit
SucceededKeepsLimit(i, body) ==
    /\ products' = inflight[i].products \o body.products
    /\ response' = "ok"
    /\ inflight' = Remove(inflight, i)
    /\ isPending' = (LiveRequests(Remove(inflight, i)) # {})
    /\ UNCHANGED <<catalog, session, res, page, mounted, limit, alertOpen>>

\* a success handler that appends to the products on screen when the
\* answer arrives, not to the products its closure captured
SucceededAppendsToCurrent(i, body) ==
    /\ products' = products \o body.products
    /\ limit' = inflight[i].limit + Increment
    /\ response' = "ok"
    /\ inflight' = Remove(inflight, i)
    /\ isPending' = (LiveRequests(Remove(inflight, i)) # {})
    /\ UNCHANGED <<catalog, session, res, page, mounted, alertOpen>>

\* the i-th request succeeded with the given body: setProducts, setLimit,
\* and the transition ends unless another request is still on its way
Succeeded(i, body) ==
    /\ products' = inflight[i].products \o body.products
    /\ limit' = inflight[i].limit + Increment
    /\ response' = "ok"
    /\ inflight' = Remove(inflight, i)
    /\ isPending' = (LiveRequests(Remove(inflight, i)) # {})
    /\ UNCHANGED <<catalog, session, res, page, mounted, alertOpen>>

\* the route answers the i-th request, one of the mounted component; the
\* rest of loadMore runs
Answer(i, w) ==
    LET answer == GET(w.env, w.store, catalog, inflight[i].params)
    IN  /\ ~alertOpen
        /\ i \in LiveRequests(inflight)
        /\ IF answer.status = 200 THEN Succeeded(i, answer.body)
           ELSE Failed(i, "not-ok")

\* fetch rejects (the network fails): the catch block alerts
FetchRejects(i) ==
    /\ ~alertOpen
    /\ i \in LiveRequests(inflight)
    /\ Failed(i, "rejected")

\* a request of an unmounted component settles: its state setters do
\* nothing, its catch block still alerts
StaleSettles(ok) ==
    /\ ~alertOpen
    /\ \E i \in DOMAIN inflight :
        /\ ~inflight[i].live
        /\ inflight' = Remove(inflight, i)
    /\ alertOpen' = ~ok
    /\ UNCHANGED <<catalog, session, res, page, mounted, products, limit, isPending, response>>

\* an alert after which the transition does not end
DismissAlertKeepsPending ==
    /\ alertOpen
    /\ alertOpen' = FALSE
    /\ UNCHANGED <<catalog, session, res, page, mounted, products, limit, inflight, response,
                   isPending>>

\* the visitor closes the alert; loadMore returns and the transition ends
\* unless another request is still on its way
DismissAlert ==
    /\ alertOpen
    /\ alertOpen' = FALSE
    /\ isPending' = (LiveRequests(inflight) # {})
    /\ UNCHANGED <<catalog, session, res, page, mounted, products, limit, inflight, response>>

Next ==
    \/ \E c \in CategoryParams, s \in SortParams, w \in ListingWorlds : Navigate(c, s, w)
    \/ LoadMore
    \/ \E i \in DOMAIN inflight, w \in ListingWorlds : Answer(i, w)
    \/ \E i \in DOMAIN inflight : FetchRejects(i)
    \/ \E ok \in BOOLEAN : StaleSettles(ok)
    \/ DismissAlert

Spec == Init /\ [][Next]_vars

\* the browsing context of /products with the given parameters
ContextOf(categoryParam, sortParam) ==
    [category |-> IF categoryParam = None THEN Undefined ELSE categoryParam[1],
     sortBy |-> GetOr(sortParam, "newest")]

\* The visitor opens /products again without leaving the browsing context
\* of the mounted component (a reload of the data, a link to the page the
\* visitor is on); any context may be opened when no component is mounted.
NavigateWithin(categoryParam, sortParam, w) ==
    /\ mounted =>
          ContextOf(categoryParam, sortParam) = [category |-> page.category,
                                                 sortBy |-> page.sortBy]
    /\ Navigate(categoryParam, sortParam, w)

OneContextNext ==
    \/ \E c \in CategoryParams, srt \in SortParams, w \in ListingWorlds :
          NavigateWithin(c, srt, w)
    \/ LoadMore
    \/ \E i \in DOMAIN inflight, w \in ListingWorlds : Answer(i, w)
    \/ \E i \in DOMAIN inflight : FetchRejects(i)
    \/ \E ok \in BOOLEAN : StaleSettles(ok)
    \/ DismissAlert

\* the listing of a visitor who never changes the context of a mounted
\* component
OneContextSpec == Init /\ [][OneContextNext]_vars

\* loadMore is entered a second time from the render whose request is on
\* its way, before the disabled button of the next render is committed: the
\* closure of that render holds the same products, limit and props, so the
\* same request leaves once more.  At most two requests overlap.
LoadMoreAgain ==
    /\ ~alertOpen
    /\ hasMore /\ isPending
    /\ Cardinality(LiveRequests(inflight)) = 1
    /\ \E i \in LiveRequests(inflight) : inflight[i] = Request
    /\ inflight' = Append(inflight, Request)
    /\ UNCHANGED <<catalog, session, res, page, mounted, products, limit, isPending, response,
                   alertOpen>>

OverlapNext ==
    \/ \E c \in CategoryParams, srt \in SortParams, w \in ListingWorlds : Navigate(c, srt, w)
    \/ LoadMore
    \/ LoadMoreAgain
    \/ \E i \in DOMAIN inflight, w \in ListingWorlds : Answer(i, w)
    \/ \E i \in DOMAIN inflight : FetchRejects(i)
    \/ \E ok \in BOOLEAN : StaleSettles(ok)
    \/ DismissAlert

\* the listing where two calls of loadMore may overlap
OverlapSpec == Init /\ [][OverlapNext]_vars

\* a request of the mounted component settles: the route answers or fetch
\* rejects
Resolves ==
    \E i \in DOMAIN inflight : FetchRejects(i) \/ (\E w \in ListingWorlds : Answer(i, w))

\* tables with one product more than the first page holds
LiveCatalogs == { GenTable(Increment + 1, pattern) : pattern \in { "uniform", "mixed" } }

LiveInit ==
    /\ catalog \in LiveCatalogs
    /\ session = None
    /\ res = NoCall
    /\ ControllerInit

\* The listing where every request of the mounted component resolves and
\* the visitor closes an alert that is open (nothing else can be done while
\* it is).
LiveSpec == LiveInit /\ [][Next]_vars /\ WF_vars(Resolves) /\ WF_vars(DismissAlert)

-----------------------------------------------------------------------------
(* Properties of the query layer (specification QuerySpec) *)

Called(op) == res.op = op
Returned == res.out.kind = "return"
Threw == res.out.kind = "throw"

\* is the row one the call's category argument selects?
Selected(row, category) ==
    /\ row.is_active
    /\ Truthy(category) => row.category = category

\* the rows of the table the paginated call may return, as a set of positions
Matching(category) == { i \in DOMAIN catalog : Selected(catalog[i], category) }

\* C4: a successful page has at most limit products, every one of them
\* active and, when a category is given, of that category.
C4_PageWithinLimitAndFilter ==
    (Called("getProductsWithPagination") /\ Returned /\ res.limit > 0 /\ res.offset >= 0) =>
        LET ps == res.out.value.products
        IN  /\ Len(ps) <= res.limit
            /\ \A k \in DOMAIN ps :
                /\ ps[k].is_active = TRUE
                /\ Truthy(res.category) => ps[k].category = res.category

\* a full page of a category, from a table that also holds a row the
\* filter must drop
C4_Witness ==
    /\ Called("getProductsWithPagination") /\ Returned
    /\ Truthy(res.category)
    /\ Len(res.out.value.products) = res.limit
    /\ \E i \in DOMAIN catalog : ~Selected(catalog[i], res.category)

\* C5: the total of a successful page is the number of active rows of the
\* category (of all active rows when none is given), whatever limit,
\* offset and sortBy are.
C5_TotalIsFilteredCount ==
    (Called("getProductsWithPagination") /\ Returned) =>
        res.out.value.total = Cardinality(Matching(res.category))

\* a page cut by the range: at an offset, with fewer products than the total
C5_Witness ==
    /\ Called("getProductsWithPagination") /\ Returned
    /\ res.offset > 0
    /\ Len(res.out.value.products) > 0
    /\ Len(res.out.value.products) < res.out.value.total

\* C6: the products of a page are in the order of the sort option.
C6_PageIsSorted ==
    (Called("getProductsWithPagination") /\ Returned) =>
        LET ps == res.out.value.products
        IN  \A j, k \in DOMAIN ps : j < k =>
              /\ res.sortBy = "price_asc"  => ps[j].price <= ps[k].price
              /\ res.sortBy = "price_desc" => ps[j].price >= ps[k].price
              /\ res.sortBy = "newest"     => ps[j].created_at >= ps[k].created_at
              /\ res.sortBy = "oldest"     => ps[j].created_at <= ps[k].created_at
              /\ res.sortBy = "name_asc"   => ~LexLess(ps[k].name, ps[j].name)

\* two products in descending price that the table holds in ascending price
C6_Witness ==
    /\ Called("getProductsWithPagination") /\ Returned
    /\ res.sortBy = "price_desc"
    /\ Len(res.out.value.products) = 2
    /\ res.out.value.products[1].price > res.out.value.products[2].price
    /\ res.out.value.products[1].id = Id(2)

\* C7: with a sortBy outside the five options the call has the outcome it
\* has with "newest" and the same category, limit and offset.
C7_UnknownSortIsNewest ==
    (Called("getProductsWithPagination") /\ res.sortBy \notin SortOptions) =>
        res.out = getProductsWithPagination(res.world.env, res.world.store, catalog,
                                            res.category, "newest", Num(res.limit),
                                            Num(res.offset))

\* an unknown sort value, and a page that "oldest" would order differently
C7_Witness ==
    /\ Called("getProductsWithPagination") /\ Returned
    /\ res.sortBy = "popular"
    /\ Len(res.out.value.products) = 2
    /\ res.out.value.products[1].created_at > res.out.value.products[2].created_at

\* is there an active row with this id?
ActiveRowWithId(id) == \E i \in DOMAIN catalog : catalog[i].id = id /\ catalog[i].is_active

\* the store reaches the query and finds no row for it
NoRowSignal(w, id) == Healthy(w) /\ IsUuid(id) /\ ~ActiveRowWithId(id)

\* C8: getProductById returns null exactly when the store gives its no-row
\* signal, and throws on every other error of the store; the detail page
\* shows its 404 state exactly in the null case.
C8_NullOnlyOnNoRow ==
    /\ Called("getProductById") =>
        /\ (Returned /\ res.out.value = None) <=> NoRowSignal(res.world, res.id)
        /\ (res.world.store # "ok" \/ ~IsUuid(res.id)) => Threw
    /\ Called("ProductDetailPage") =>
        /\ res.out.view = "not-found" <=> NoRowSignal(res.world, res.id)
        /\ (res.world.store # "ok" \/ ~IsUuid(res.id)) => res.out.view = "error"

\* the id of a row that exists and is inactive gives null
C8_Witness ==
    /\ Called("getProductById") /\ Returned /\ res.out.value = None
    /\ \E i \in DOMAIN catalog : catalog[i].id = res.id /\ ~catalog[i].is_active

\* C9: getFeaturedProducts never throws, and returns the empty list when
\* the configuration is missing, the store answers with an error or the
\* request raises an exception.
C9_FeaturedNeverThrows ==
    Called("getFeaturedProducts") =>
        /\ Returned
        /\ ~Healthy(res.world) => res.out.value = <<>>

\* the store reports that the relation does not exist, over a table with
\* an active row
C9_Witness ==
    /\ Called("getFeaturedProducts") /\ Returned
    /\ res.world.store = "42P01"
    /\ \E i \in DOMAIN catalog : catalog[i].is_active

\* C10: getProducts, getProductsByCategory, getProductsWithPagination and
\* getProductById throw whenever the store fails (the no-row signal of
\* getProductById aside); none of them returns a list or null then.
C10_FailuresPropagate ==
    (/\ res.op \in { "getProducts", "getProductsByCategory",
                     "getProductsWithPagination", "getProductById" }
     /\ res.world.store # "ok") => Threw

\* getProducts throws over a table with an active row
C10_Witness ==
    /\ Called("getProducts") /\ Threw
    /\ res.world.store = "42P01"
    /\ \E i \in DOMAIN catalog : catalog[i].is_active

\* what the paginated query gives for the arguments the route read
RouteQuery ==
    getProductsWithPagination(res.world.env, res.world.store, catalog, res.args.category,
                              res.args.sortBy, res.args.limit, res.args.offset)

\* C11: the route answers every request with status 200 and a body
\* {products, total}, or with status 500 and a body {error: message}; it
\* answers 500 whenever the paginated query fails, and the message is the
\* same whatever the failure was.
C11_RouteAnswers ==
    Called("GET") =>
        /\ \/ /\ res.out.status = 200
              /\ DOMAIN res.out.body = { "products", "total" }
              /\ res.out.body.total \in Nat
              /\ DOMAIN res.out.body.products = 1..Len(res.out.body.products)
           \/ /\ res.out.status = 500
              /\ res.out.body = [error |-> RouteErrorMessage]
        /\ res.out.status = (IF RouteQuery.kind = "throw" THEN 500 ELSE 200)

\* a 500 answer to a failure that is not the store's: the configuration
\* is missing, and createClient's own message is not in the body
C11_Witness ==
    /\ Called("GET")
    /\ ~res.world.env.url
    /\ RouteQuery = Throw(MissingEnvMessage)
    /\ res.out.status = 500

\* the number a query parameter of the route stands for: the fallback when
\* the parameter is absent or is no number, its base-10 value otherwise
ParsedOr(param, fallback) ==
    IF param = None THEN Num(fallback)
    ELSE IF parseInt(param[1]) = NaN THEN Num(fallback)
    ELSE parseInt(param[1])

\* C12: in the route limit is 12 and offset is 0 when the parameter is
\* absent or is not a number, and the base-10 value of the parameter
\* otherwise.
C12_DefaultsUnlessNumeric ==
    Called("GET") =>
        /\ res.args.limit = ParsedOr(res.params.limit, DefaultLimit)
        /\ res.args.offset = ParsedOr(res.params.offset, 0)

\* C13: the limit and offset with which the route calls the paginated query
\* are numbers with limit > 0 and offset >= 0.
C13_RouteRangeIsValid ==
    Called("GET") =>
        /\ res.args.limit # NaN /\ res.args.offset # NaN
        /\ res.args.limit[1] > 0
        /\ res.args.offset[1] >= 0

\* C14: no operation of the query layer, and neither the route nor the
\* detail page on top of it, returns a product that is not active.
C14_OnlyActiveReturned ==
    /\ (/\ res.op \in { "getProducts", "getProductsByCategory", "getFeaturedProducts" }
        /\ Returned) =>
            \A k \in DOMAIN res.out.value : res.out.value[k].is_active
    /\ (Called("getProductsWithPagination") /\ Returned) =>
            \A k \in DOMAIN res.out.value.products : res.out.value.products[k].is_active
    /\ (Called("getProductById") /\ Returned) =>
            \A k \in DOMAIN res.out.value : res.out.value[k].is_active
    /\ (Called("ProductDetailPage") /\ res.out.view = "detail") => res.out.product.is_active
    /\ (Called("GET") /\ res.out.status = 200) =>
            \A k \in DOMAIN res.out.body.products : res.out.body.products[k].is_active

\* products of a category are returned from a table that holds an inactive
\* row of the same category
C14_Witness ==
    /\ Called("getProductsByCategory") /\ Returned
    /\ Len(res.out.value) > 0
    /\ \E i \in DOMAIN catalog :
        ~catalog[i].is_active /\ catalog[i].category = res.category

\* C16: when a connection parameter is missing, getProductsWithPagination,
\* getProductById, getProducts and getProductsByCategory throw createClient's
\* error, and getFeaturedProducts returns the empty list.
C16_MissingConfiguration ==
    (res.op \in QueryOps /\ ~Configured(res.world)) =>
        /\ res.op \in { "getProducts", "getProductsByCategory",
                        "getProductsWithPagination", "getProductById" } =>
                res.out = Throw(MissingEnvMessage)
        /\ Called("getFeaturedProducts") => res.out = Return(<<>>)

\* the key is missing, the table has an active row, and the featured list
\* is empty
C16_Witness ==
    /\ Called("getFeaturedProducts")
    /\ ~res.world.env.key
    /\ res.out = Return(<<>>)
    /\ \E i \in DOMAIN catalog : catalog[i].is_active

\* the active rows of the table, as a set of positions
ActiveRows == { i \in DOMAIN catalog : catalog[i].is_active }

\* C17: the paginated query filters by category exactly when the argument is
\* passed and not empty: without it the rows of every category, those
\* without one included, are counted and returned; a category no active
\* row has gives no products and total 0, not an error.  The route passes
\* an empty category parameter on as no category.
C17_CategoryPredicate ==
    /\ (Called("getProductsWithPagination") /\ Healthy(res.world)) =>
        /\ Returned
        /\ res.category \in { Undefined, "" } =>
            /\ res.out.value.total = Cardinality(ActiveRows)
            /\ res.out = getProductsWithPagination(res.world.env, res.world.store, catalog,
                                                   Undefined, res.sortBy, Num(res.limit),
                                                   Num(res.offset))
        /\ res.category \notin { Undefined, "" } =>
            /\ res.out.value.total =
                 Cardinality({ i \in ActiveRows : catalog[i].category = res.category })
            /\ \A k \in DOMAIN res.out.value.products :
                 res.out.value.products[k].category = res.category
            /\ (\A i \in ActiveRows : catalog[i].category # res.category) =>
                 res.out.value = [products |-> <<>>, total |-> 0]
    /\ Called("GET") =>
        res.args.category =
            (IF res.params.category \in { None, Some("") } THEN Undefined
             ELSE res.params.category[1])

\* the empty category: a product without category is on the page
C17_Witness ==
    /\ Called("getProductsWithPagination") /\ Returned
    /\ res.category = ""
    /\ \E k \in DOMAIN res.out.value.products : res.out.value.products[k].category = Null

\* the whole filtered and sorted sequence of the call in res, fetched as
\* one page
WholeSequence ==
    getProductsWithPagination(res.world.env, res.world.store, catalog, res.category,
                              res.sortBy, Num(Len(catalog) + 1), Num(0)).value.products

\* the pages of size lim at offsets from, from + lim, ... one after another
RECURSIVE PagesFrom(_, _)
PagesFrom(lim, from) ==
    IF from >= Len(catalog) THEN <<>>
    ELSE getProductsWithPagination(res.world.env, res.world.store, catalog, res.category,
                                   res.sortBy, Num(lim), Num(from)).value.products
         \o PagesFrom(lim, from + lim)

\* does the sort column order the rows of the sequence totally?
TotalOrder(rows, sortBy) ==
    LET col == SortOrder(IF sortBy = Undefined THEN "newest" ELSE sortBy).column
    IN  \A j, k \in DOMAIN rows : j # k => rows[j][col] # rows[k][col]

\* C18: a page is the rows offset .. offset + limit - 1 of the filtered and
\* sorted sequence, cut at its end; when the order is total, the pages at
\* offsets 0, limit, 2*limit, ... share no product and, one after another,
\* are the whole sequence.
C18_PageIsRangeOfSequence ==
    (Called("getProductsWithPagination") /\ Returned) =>
        \A whole \in { WholeSequence } :
            LET ps == res.out.value.products
                n == Max(0, Min(res.limit, Len(whole) - res.offset))
            IN  /\ Len(ps) = n
                /\ \A k \in 1..n : ps[k] = whole[res.offset + k]
                /\ (res.offset = 0 /\ TotalOrder(whole, res.sortBy)) =>
                    /\ PagesFrom(res.limit, 0) = whole
                    /\ \A j, k \in DOMAIN whole : j # k => whole[j].id # whole[k].id

\* the second page of size 1 of a sequence of two products in total order
C18_Witness ==
    /\ Called("getProductsWithPagination") /\ Returned
    /\ res.limit = 1 /\ res.offset = 1
    /\ Len(WholeSequence) = 2
    /\ TotalOrder(WholeSequence, res.sortBy)
    /\ res.out.value.products = <<WholeSequence[2]>>

\* what getProducts returns when the store reads the table in the given
\* scan order
FetchAll(scan) == getProducts(res.world.env, res.world.store, Scan(catalog, scan)).value

\* the ids of the products of a list, as a set
Ids(rows) == { rows[k].id : k \in DOMAIN rows }

\* is the list in non-increasing created_at order?
NewestFirst(rows) ==
    \A j, k \in DOMAIN rows : j < k => rows[j].created_at >= rows[k].created_at

\* no two active rows were created at the same time
DistinctCreation ==
    \A i, j \in ActiveRows : i # j => catalog[i].created_at # catalog[j].created_at

\* getProducts returns all active products, newest first
FetchAllIsNewestFirst ==
    (Called("getProducts") /\ Healthy(res.world)) =>
        /\ Returned
        /\ NewestFirst(res.out.value)
        /\ Len(res.out.value) = Cardinality(ActiveRows)
        /\ Ids(res.out.value) = { catalog[i].id : i \in ActiveRows }

\* the other two list queries return what any call of getProducts over
\* the same table returns, filtered by category or cut at the limit
ListsAgreeWithFetchAll ==
    /\ (Called("getProductsByCategory") /\ Healthy(res.world)) =>
        /\ Returned
        /\ \A scan \in Scans :
            res.out.value = SelectSeq(FetchAll(scan), LAMBDA r : r.category = res.category)
    /\ (Called("getFeaturedProducts") /\ Healthy(res.world)) =>
        /\ res.arg = None => res.limit = 6
        /\ \A scan \in Scans :
            res.out.value = SubSeq(FetchAll(scan), 1, Min(res.limit, Len(FetchAll(scan))))

\* C24, as stated: without error getProducts returns all active products
\* newest first, getProductsByCategory(c) exactly the subsequence of that
\* list with category c, and getFeaturedProducts(limit) exactly its first
\* limit elements (6 when no limit is passed).
C24_ListsAgree == FetchAllIsNewestFirst /\ ListsAgreeWithFetchAll

\* C24, amended: the same when no two active products have the same
\* created_at; in general the three lists are newest first,
\* getProductsByCategory(c) holds the active products of category c, and
\* getFeaturedProducts(limit) holds min(limit, number of active products)
\* products none of which is older than an active product it leaves out.
C24_ListsAgreeUpToTies ==
    /\ FetchAllIsNewestFirst
    /\ DistinctCreation => ListsAgreeWithFetchAll
    /\ (Called("getProductsByCategory") /\ Healthy(res.world)) =>
        /\ Returned
        /\ NewestFirst(res.out.value)
        /\ Len(res.out.value) = Cardinality(Ids(res.out.value))
        /\ Ids(res.out.value) =
             { catalog[i].id : i \in { j \in ActiveRows : catalog[j].category = res.category } }
    /\ (Called("getFeaturedProducts") /\ Healthy(res.world)) =>
        /\ NewestFirst(res.out.value)
        /\ Len(res.out.value) = Min(res.limit, Cardinality(ActiveRows))
        /\ Len(res.out.value) = Cardinality(Ids(res.out.value))
        /\ \A k \in DOMAIN res.out.value, i \in ActiveRows :
             catalog[i].id \notin Ids(res.out.value) =>
                res.out.value[k].created_at >= catalog[i].created_at

\* the newest of two active products created at different times, asked
\* for as a featured list of one, read back to front
C24_Witness ==
    /\ Called("getFeaturedProducts") /\ Healthy(res.world)
    /\ res.scan = "backward" /\ res.limit = 1
    /\ Cardinality(ActiveRows) = 2 /\ DistinctCreation
    /\ res.out.value = <<FetchAll("forward")[1]>>

\* the paths of the category list
Paths == { CATEGORIES[i].path : i \in DOMAIN CATEGORIES }

\* C26: every entry of the category list has path = dbValue, no two
\* entries have the same path, and for every string the lookup by path and
\* the lookup by dbValue return the same entry: the one of that path, or
\* undefined when the string is no listed category.
C26_CategoryLookupsAgree ==
    /\ \A i \in DOMAIN CATEGORIES : CATEGORIES[i].path = CATEGORIES[i].dbValue
    /\ \A i, j \in DOMAIN CATEGORIES : i # j => CATEGORIES[i].path # CATEGORIES[j].path
    /\ res.op \in { "getCategoryByPath", "getCategoryByDbValue" } =>
        /\ res.out = getCategoryByPath(res.arg)
        /\ res.out = getCategoryByDbValue(res.arg)
        /\ res.out = None <=> res.arg \notin Paths
        /\ res.out # None =>
            /\ res.out[1].path = res.arg
            /\ res.out[1].dbValue = res.arg

\* the third entry found by its stored value
C26_Witness ==
    /\ Called("getCategoryByDbValue")
    /\ res.arg = "sink"
    /\ res.out = Some(CATEGORIES[3])

-----------------------------------------------------------------------------
(* Properties of the repeated calls (specification TokenSpec) *)

\* C25: every call of an operation that sends a request sends it with the
\* token the caller's session has at that moment (none for an anonymous
\* caller), whatever token the call before it sent.
C25_TokenIsFresh ==
    [][ (res' # res /\ res'.sent) => res'.token = session ]_vars

\* a request with the second token, after one that carried the first
C25_Witness ==
    /\ res # NoCall /\ res.sent
    /\ res.previous = Some(Some(1))
    /\ res.token = Some(2)
    /\ session = Some(2)

-----------------------------------------------------------------------------
(* Properties of the listing (specification Spec) *)

\* the number of requests of the mounted component that are on their way
InFlightCount == Cardinality(LiveRequests(inflight))

\* a step in which loadMore sends a request
IssueStep == Len(inflight') = Len(inflight) + 1

\* a step in which a request of the mounted component succeeds, or fails
SuccessStep == mounted' /\ InFlightCount' < InFlightCount /\ response' = "ok"
FailureStep ==
    mounted' /\ InFlightCount' < InFlightCount /\ response' \in { "not-ok", "rejected" }

\* C1: every request loadMore sends asks for offset = len(items) and
\* limit = the fixed increment 12, with the category and sort of the
\* component's context, and a successful loadMore appends the next page of
\* the increment's size, cut at total (12 of 30 -> 24 -> 30).
C1_LoadMoreProtocol ==
    [][ /\ IssueStep =>
            LET r == inflight'[Len(inflight')]
            IN  /\ r.params.offset = Some(String(Len(products)))
                /\ r.params.limit = Some(String(Increment))
                /\ r.params.sort = Some(page.sortBy)
                /\ GetOr(r.params.category, Undefined)
                     = (IF Truthy(page.category) THEN page.category ELSE Undefined)
        /\ SuccessStep /\ Len(products) <= page.total =>
            Len(products') = Min(Len(products) + Increment, page.total)
      ]_vars

\* C2: at most one page request of the mounted component is in flight.
C2_AtMostOneInFlight == InFlightCount <= 1

\* the button is on the page and disabled while the one request is out
C2_Witness == hasMore /\ isPending /\ InFlightCount = 1 /\ ~ButtonEnabled

\* C3: a failed loadMore changes neither items nor total nor the limit,
\* raises the alert and leaves no request behind; once the alert is closed
\* pending is false and the button sends the same offset again.
C3_FailedLoadKeepsState ==
    [][ /\ FailureStep =>
            /\ products' = products
            /\ limit' = limit
            /\ page' = page
            /\ alertOpen'
            /\ InFlightCount' = 0
        /\ (alertOpen /\ ~alertOpen' /\ InFlightCount = 0) =>
            /\ ~isPending'
            /\ products' = products
            /\ hasMore' => ButtonEnabled'
      ]_vars

\* a load failed, the alert was closed, and the button is enabled again
C3_Witness ==
    /\ response \in { "not-ok", "rejected" }
    /\ ~alertOpen
    /\ ButtonEnabled
    /\ inflight = <<>>

\* a step in which the page is rendered for another category or sort while
\* the component stays mounted
ContextChangeStep ==
    /\ mounted /\ mounted'
    /\ page'.category # page.category \/ page'.sortBy # page.sortBy

\* C15: when the category or the sort changes, the component starts again
\* from the first page of the new context: its products are the new
\* initialProducts, none of the old ones, and its limit is the initial limit.
C15_ContextChangeResets ==
    [][ ContextChangeStep =>
            /\ products' = page'.initialProducts
            /\ limit' = page'.initialLimit
      ]_vars

\* C19: loadMore sends a request only from a state with
\* len(products) < total.
C19_NoRequestWithoutMore ==
    [][ IssueStep => (mounted /\ Len(products) < page.total) ]_vars

\* everything was loaded by a "load more": no button is left to click
C19_Witness ==
    /\ mounted /\ response = "ok"
    /\ Len(products) >= page.total
    /\ ~isPending /\ ~alertOpen
    /\ ~ButtonEnabled

IsPrefix(a, b) == Len(a) <= Len(b) /\ SubSeq(b, 1, Len(a)) = a

\* C20: while the component is mounted no step removes or reorders a
\* product: the list before the step is a prefix of the list after it; and
\* a successful loadMore appends exactly the products the route returned
\* for its request, in their order.
C20_ItemsAppendOnly ==
    [][ /\ (mounted /\ mounted') => IsPrefix(products, products')
        /\ SuccessStep =>
            \E i \in LiveRequests(inflight), w \in ListingWorlds :
                LET answer == GET(w.env, w.store, catalog, inflight[i].params)
                IN  /\ answer.status = 200
                    /\ products' = products \o answer.body.products
      ]_vars

\* a loaded page stands behind the first one
C20_Witness ==
    /\ mounted /\ response = "ok"
    /\ Len(products) > InitialLimit
    /\ IsPrefix(page.initialProducts, products)

\* a step in which the component is mounted: its first render
MountStep == ~mounted /\ mounted'

\* C22: the first render seeds the component with items = the first-page
\* products, total = the given total, requestedCount = len(products) and
\* pending = false, also for a first page shorter than the page size.
C22_InitializeSeeds ==
    [][ MountStep =>
            /\ products' = page'.initialProducts
            /\ hasMore' = (Len(page'.initialProducts) < page'.total)
            /\ limit' = Len(page'.initialProducts)
            /\ ~isPending'
      ]_vars

\* C23: while the component is mounted its limit never decreases: a
\* successful loadMore adds exactly the increment 12, and no other step
\* (a failed loadMore, a click that sends nothing, a re-render) changes it.
C23_LimitGrowsByIncrement ==
    [][ (mounted /\ mounted') =>
            /\ limit' >= limit
            /\ SuccessStep => limit' = limit + Increment
            /\ ~SuccessStep => limit' = limit
      ]_vars

\* one page was loaded after the first
C23_Witness ==
    /\ mounted /\ response = "ok"
    /\ limit = InitialLimit + Increment

\* C28: the component never shows more products than the total of the
\* context it is rendered for, also after the page renders it again with
\* another category, sort or total.
C28_ItemsWithinTotal == mounted => Len(products) <= page.total

-----------------------------------------------------------------------------
(* Properties of the listing within one context (specification             *)
(* OneContextSpec)                                                         *)

\* the whole filtered and sorted sequence of the context the page was
\* rendered for
ContextSequence ==
    getProductsWithPagination([url |-> TRUE, key |-> TRUE], "ok", catalog, page.category,
                              page.sortBy, Num(Len(catalog) + 1), Num(0)).value.products

\* C27: within one browsing context whose sort order is total, the products
\* of the component are at every moment a prefix of the whole filtered and
\* sorted sequence, so no id occurs twice among them and none is skipped.
C27_ItemsArePrefix ==
    mounted =>
        \A whole \in { ContextSequence } :
            TotalOrder(whole, page.sortBy) =>
                /\ IsPrefix(products, whole)
                /\ Cardinality(Ids(products)) = Len(products)

\* after a load the component shows the whole sequence of its context,
\* more than a first page
C27_Witness ==
    /\ mounted /\ response = "ok"
    /\ Len(products) > InitialLimit
    /\ TotalOrder(ContextSequence, page.sortBy)
    /\ products = ContextSequence

-----------------------------------------------------------------------------
(* Properties of the listing with overlapping loads (specification         *)
(* OverlapSpec)                                                            *)

\* the live requests whose twin, sent from the same render, has already
\* been answered with success: the products on screen are no longer the
\* ones the request captured
SecondOfTwo ==
    { i \in LiveRequests(inflight) : response = "ok" /\ inflight[i].products # products }

\* the step in which the i-th request is answered with success
SuccessOf(i) ==
    /\ i \in LiveRequests(inflight)
    /\ inflight' = Remove(inflight, i)
    /\ response' = "ok"
    /\ ~alertOpen'

\* C29: when two calls of loadMore started from the same render and both
\* are answered with success, applying the second answer leaves the products
\* (and the limit) as the first answer left them: the append starts from the
\* captured products, so nothing is shown twice and nothing the first answer
\* brought is lost.
C29_SecondAnswerChangesNothing ==
    [][ \A i \in SecondOfTwo :
            SuccessOf(i) => (products' = products /\ limit' = limit) ]_vars

\* the first of two overlapping requests has been answered with success
\* and has brought products; the second is still on its way
C29_Witness ==
    /\ mounted /\ isPending
    /\ SecondOfTwo # {}
    /\ \A i \in SecondOfTwo :
          /\ IsPrefix(inflight[i].products, products)
          /\ Len(products) > Len(inflight[i].products)

-----------------------------------------------------------------------------
(* Properties of the listing whose requests resolve (specification LiveSpec) *)

\* C21, as stated: pending is true only while a request is in flight, and
\* every state with pending true is followed by one with pending false.
C21_PendingOnlyInFlight ==
    /\ [](isPending => InFlightCount >= 1)
    /\ isPending ~> ~isPending

\* C21, amended: pending is true only while a request is in flight or the
\* alert of a failed request is still open (the catch block has not
\* returned), and every state with pending true is followed by one with
\* pending false.
C21_PendingClears ==
    /\ [](isPending => (InFlightCount >= 1 \/ alertOpen))
    /\ isPending ~> ~isPending

\* the request has failed and is gone, the alert is open, pending is still
\* true
C21_Witness ==
    /\ mounted /\ isPending /\ alertOpen
    /\ InFlightCount = 0
    /\ response \in { "not-ok", "rejected" }

====
